---- MODULE Spec2Model ----
(***************************************************************************)
(* A model of format_xml.py (Kodi add-on XML formatter).                   *)
(*                                                                         *)
(* Text is a sequence of tokens.  A token stands for one lexical unit of   *)
(* the file's text:                                                        *)
(*   "decl"      <?xml version="1.0" encoding="UTF-8"?>                    *)
(*   "<a>" ...   a start tag, "</a>" an end tag, "<a/>" an empty element   *)
(*   "x"         a character of ordinary text                              *)
(*   "sp" "nl" "cr"   a space, a line feed, a carriage return              *)
(*   "&#13;"     the character reference to a carriage return              *)
(*   "O" "C"     the CDATA delimiters  <![CDATA[  and  ]]>                 *)
(*   "P0" "P1".. the text  __CDATA_PLACEHOLDER_i__                         *)
(* minidom / expat (library code the program calls) are modelled by what   *)
(* they do on such text: well-formedness, the DOM's text and CDATA nodes,  *)
(* and the layout toprettyxml writes.                                      *)
(***************************************************************************)
EXTENDS Integers, Sequences, FiniteSets, TLC

VARIABLES
    \* ---- pretty_print_xml applied to a text, and again to its result
    pp_input, pp_rough, pp_sections, pp_pretty, pp_result, pp_again, pp_pc,
    \* ---- format_directory's run
    dry_run, backup, validate,    \* the run's options
    name, readable, initial,      \* per file: its name, whether it can be read, its content at the start
    disk, bak,                    \* per file: its stored content, its .bak file
    idx, pc,                      \* the loop's position and the position in the loop body
    original_content, rough_string, cdata_sections, pretty_xml, formatted_content,
    formatted_count, error_count, validation_errors,
    outcome, stages, reported, passed_on

ppvars == <<pp_input, pp_rough, pp_sections, pp_pretty, pp_result, pp_again, pp_pc>>
options == <<dry_run, backup, validate>>
files == <<name, readable, initial>>
locals == <<original_content, rough_string, cdata_sections, pretty_xml, formatted_content>>
counters == <<formatted_count, error_count, validation_errors>>
history == <<outcome, stages, reported, passed_on>>
runvars == <<options, files, disk, bak, idx, pc, locals, counters, history>>
vars == <<ppvars, runvars>>

\* ------------------------------------------------------------------ bounds

\* The number of segments a generated text's body is made of.
MaxSeg == 3
\* The number of files format_directory is given.
NumFiles == 2

\* ------------------------------------------------------------------ text

\* Python's None, as a value comparable with a text.
None == <<"None">>
\* A result not yet computed.
Unset == <<"Unset">>

\* What str.strip() and a blank "line.strip()" treat as whitespace.
Whitespace == {"sp", "nl", "cr"}

\* The tags of the model: start tag, end tag, empty-element tag, the
\* element's name and the names of its attributes.
TagTable ==
    { [open |-> "<a>", close |-> "</a>", empty |-> "<a/>", tag |-> "a", attrib |-> {}],
      [open |-> "<addon id name>", close |-> "</addon>",
       empty |-> "<addon id name/>", tag |-> "addon", attrib |-> {"id", "name"}],
      [open |-> "<addon id name version provider-name>", close |-> "</addon>",
       empty |-> "<addon id name version provider-name/>", tag |-> "addon",
       attrib |-> {"id", "name", "version", "provider-name"}] }

IsOpen(t) == \E e \in TagTable : e.open = t
IsClose(t) == \E e \in TagTable : e.close = t
IsEmpty(t) == \E e \in TagTable : e.empty = t
\* The table's entry of a start or empty-element tag.
TagEntry(t) == CHOOSE e \in TagTable : e.open = t \/ e.empty = t
\* The element name an end tag closes.
CloseName(t) == (CHOOSE e \in TagTable : e.close = t).tag

RECURSIVE Flatten(_)
Flatten(ss) == IF ss = <<>> THEN <<>> ELSE Head(ss) \o Flatten(Tail(ss))

RECURSIVE Repeat(_, _)
Repeat(s, n) == IF n = 0 THEN <<>> ELSE s \o Repeat(s, n - 1)

\* Whether text s holds the text old at position i.
OccursAt(s, old, i) ==
    /\ i + Len(old) - 1 <= Len(s)
    /\ SubSeq(s, i, i + Len(old) - 1) = old

\* str.replace(old, new): every non-overlapping occurrence, left to right.
RECURSIVE ReplaceFrom(_, _, _, _)
ReplaceFrom(s, old, new, i) ==
    IF i > Len(s) THEN <<>>
    ELSE IF OccursAt(s, old, i) THEN new \o ReplaceFrom(s, old, new, i + Len(old))
    ELSE <<s[i]>> \o ReplaceFrom(s, old, new, i + 1)

StrReplace(s, old, new) == ReplaceFrom(s, old, new, 1)

\* The first index >= i of token t in s, or 0.
RECURSIVE IndexFrom(_, _, _)
IndexFrom(s, t, i) ==
    IF i > Len(s) THEN 0
    ELSE IF s[i] = t THEN i
    ELSE IndexFrom(s, t, i + 1)

\* str.rstrip(), str.lstrip(), str.strip()
RECURSIVE RStripLen(_, _)
RStripLen(s, n) ==
    IF n = 0 THEN 0
    ELSE IF s[n] \in Whitespace THEN RStripLen(s, n - 1)
    ELSE n

RStrip(s) == SubSeq(s, 1, RStripLen(s, Len(s)))

RECURSIVE LStrip(_)
LStrip(s) ==
    IF s = <<>> THEN s
    ELSE IF Head(s) \in Whitespace THEN LStrip(Tail(s))
    ELSE s

Strip(s) == LStrip(RStrip(s))

\* str.split("\n"): the lines of s.
RECURSIVE SplitLines(_, _, _)
SplitLines(s, i, cur) ==
    IF i > Len(s) THEN <<cur>>
    ELSE IF s[i] = "nl" THEN <<cur>> \o SplitLines(s, i + 1, <<>>)
    ELSE SplitLines(s, i + 1, Append(cur, s[i]))

\* "\n".join(lines)
RECURSIVE JoinLines(_)
JoinLines(ls) ==
    IF ls = <<>> THEN <<>>
    ELSE IF Len(ls) = 1 THEN ls[1]
    ELSE ls[1] \o <<"nl">> \o JoinLines(Tail(ls))

\* ------------------------------------------------ the parser (expat)

\* A parser event: k is "decl", "open", "close", "empty", "text", "cdata"
\* or "err"; t the tag token (for a text: "ref" when it holds a character
\* reference); d the characters of a text or CDATA node.
Ev(k, t, d) == [k |-> k, t |-> t, d |-> d]

\* The tokens that are character data in element content.
IsTextToken(t) ==
    /\ t \notin {"decl", "O", "C"}
    /\ ~IsOpen(t) /\ ~IsClose(t) /\ ~IsEmpty(t)

\* An empty CDATA section at position i: it gives no node.
EmptySectionAt(s, i) == s[i] = "O" /\ i < Len(s) /\ s[i + 1] = "C"

\* A character of text as the parser delivers it: a line break is
\* normalised to a line feed (a carriage return followed by a line feed
\* is one line break), a character reference gives its character.
TextChar(s, i) ==
    CASE s[i] = "cr" -> IF i < Len(s) /\ s[i + 1] = "nl" THEN <<>> ELSE <<"nl">>
      [] s[i] = "&#13;" -> <<"cr">>
      [] OTHER -> <<s[i]>>

\* The characters of a CDATA section's content s[i..j]: no references.
RECURSIVE CdataChars(_, _, _)
CdataChars(s, i, j) ==
    IF i > j THEN <<>>
    ELSE (IF s[i] = "cr" THEN (IF i < j /\ s[i + 1] = "nl" THEN <<>> ELSE <<"nl">>)
          ELSE <<s[i]>>) \o CdataChars(s, i + 1, j)

\* Where the run of character data that starts at i ends: consecutive
\* character data is one text node (expatbuilder's character_data_handler
\* extends a text node that ends the node list), and an empty CDATA
\* section in it does not split it.
RECURSIVE RunEnd(_, _)
RunEnd(s, i) ==
    IF i > Len(s) THEN i
    ELSE IF IsTextToken(s[i]) THEN RunEnd(s, i + 1)
    ELSE IF EmptySectionAt(s, i) THEN RunEnd(s, i + 2)
    ELSE i

\* The characters of the run s[i..j-1].
RECURSIVE RunChars(_, _, _)
RunChars(s, i, j) ==
    IF i >= j THEN <<>>
    ELSE IF s[i] = "O" THEN RunChars(s, i + 2, j)
    ELSE TextChar(s, i) \o RunChars(s, i + 1, j)

\* The events of text s from position i on, depth elements being open.
\* "]]>" in character data, a CDATA section that is not closed and an
\* empty CDATA section outside the document element are errors.
RECURSIVE Lex(_, _, _)
Lex(s, i, depth) ==
    IF i > Len(s) THEN <<>>
    ELSE LET t == s[i] IN
        CASE t = "decl" -> <<Ev("decl", t, <<>>)>> \o Lex(s, i + 1, depth)
          [] IsOpen(t) -> <<Ev("open", t, <<>>)>> \o Lex(s, i + 1, depth + 1)
          [] IsClose(t) -> <<Ev("close", t, <<>>)>> \o Lex(s, i + 1, depth - 1)
          [] IsEmpty(t) -> <<Ev("empty", t, <<>>)>> \o Lex(s, i + 1, depth)
          [] t = "C" -> <<Ev("err", t, <<>>)>>
          [] t = "O" /\ ~EmptySectionAt(s, i) ->
                LET q == IndexFrom(s, "C", i + 1) IN
                IF q = 0 THEN <<Ev("err", t, <<>>)>>
                ELSE <<Ev("cdata", "", CdataChars(s, i + 1, q - 1))>> \o Lex(s, q + 1, depth)
          [] OTHER ->
                LET j == RunEnd(s, i)
                    chars == RunChars(s, i, j)
                    sections == \E k \in i..(j - 1) : s[k] = "O"
                    refs == \E k \in i..(j - 1) : s[k] = "&#13;"
                IN IF sections /\ depth <= 0 THEN <<Ev("err", "O", <<>>)>>
                   ELSE (IF chars = <<>> THEN <<>>
                         ELSE <<Ev("text", IF refs THEN "ref" ELSE "", chars)>>)
                        \o Lex(s, j, depth)

Events(s) == Lex(s, 1, 0)

\* Well-formedness of an event list from position i on: stack holds the
\* names of the open elements, innermost first; roots counts the document
\* elements seen.  The declaration is allowed only as the very first
\* thing; outside the document element only whitespace is allowed (no
\* reference, no CDATA).
RECURSIVE Balanced(_, _, _, _)
Balanced(ev, i, stack, roots) ==
    IF i > Len(ev) THEN stack = <<>> /\ roots = 1
    ELSE LET e == ev[i] IN
        CASE e.k = "err" -> FALSE
          [] e.k = "decl" -> i = 1 /\ Balanced(ev, i + 1, stack, roots)
          [] e.k = "open" ->
                /\ stack # <<>> \/ roots = 0
                /\ Balanced(ev, i + 1, <<TagEntry(e.t).tag>> \o stack, 1)
          [] e.k = "empty" ->
                /\ stack # <<>> \/ roots = 0
                /\ Balanced(ev, i + 1, stack, 1)
          [] e.k = "close" ->
                /\ stack # <<>>
                /\ Head(stack) = CloseName(e.t)
                /\ Balanced(ev, i + 1, Tail(stack), roots)
          [] e.k = "cdata" -> stack # <<>> /\ Balanced(ev, i + 1, stack, roots)
          [] OTHER ->   \* text
                /\ stack # <<>> \/ (e.t # "ref" /\ \A k \in 1..Len(e.d) : e.d[k] \in Whitespace)
                /\ Balanced(ev, i + 1, stack, roots)

\* Whether the parser accepts text s (ET.fromstring and minidom.parseString
\* both run expat).
WellFormed(s) == \E ev \in {Events(s)} : Balanced(ev, 1, <<>>, 0)

\* The index of the end tag of the element opened at event i.
RECURSIVE MatchFrom(_, _, _)
MatchFrom(ev, j, depth) ==
    IF ev[j].k = "open" THEN MatchFrom(ev, j + 1, depth + 1)
    ELSE IF ev[j].k = "close"
         THEN (IF depth = 1 THEN j ELSE MatchFrom(ev, j + 1, depth - 1))
    ELSE MatchFrom(ev, j + 1, depth)

MatchClose(ev, i) == MatchFrom(ev, i + 1, 1)

\* The index of the document element's first event.
RECURSIVE RootIndex(_, _)
RootIndex(ev, i) ==
    IF ev[i].k \in {"open", "empty"} THEN i ELSE RootIndex(ev, i + 1)

\* ET.fromstring(content): the root element's tag and attributes.
RootElement(s) == TagEntry(Events(s)[RootIndex(Events(s), 1)].t)

\* ---------------------------------------------- the writer (minidom)

\* A node's data as written between its parent's tags.
NodeText(e) == IF e.k = "cdata" THEN <<"O">> \o e.d \o <<"C">> ELSE e.d

\* Node.writexml of the nodes ev[i..j], in order, at nesting depth: an
\* element with no child is written as an empty element; one whose only
\* child is a text or CDATA node is written on one line; else its children
\* are written, each indented one unit more.  A text node is written as
\* indent + data + newline, a CDATA node with neither.
RECURSIVE WriteNodes(_, _, _, _, _)
WriteNodes(ev, i, j, depth, indent) ==
    IF i > j THEN <<>>
    ELSE LET e == ev[i]
             pad == Repeat(indent, depth)
         IN
        CASE e.k = "text" ->
                pad \o e.d \o <<"nl">> \o WriteNodes(ev, i + 1, j, depth, indent)
          [] e.k = "cdata" ->
                NodeText(e) \o WriteNodes(ev, i + 1, j, depth, indent)
          [] e.k = "empty" ->
                pad \o <<e.t>> \o <<"nl">> \o WriteNodes(ev, i + 1, j, depth, indent)
          [] OTHER ->   \* a start tag
                LET m == MatchClose(ev, i)
                    ent == TagEntry(e.t)
                    elem ==
                        IF m = i + 1 THEN pad \o <<ent.empty, "nl">>
                        ELSE IF m = i + 2 /\ ev[i + 1].k \in {"text", "cdata"}
                        THEN pad \o <<ent.open>> \o NodeText(ev[i + 1]) \o <<ent.close, "nl">>
                        ELSE pad \o <<ent.open, "nl">>
                             \o WriteNodes(ev, i + 1, m - 1, depth + 1, indent)
                             \o pad \o <<ent.close, "nl">>
                IN elem \o WriteNodes(ev, m + 1, j, depth, indent)

\* Document.writexml: the declaration, then the document element
\* (whitespace around it is not part of the DOM).
WriteDocument(ev, indent) ==
    LET r == RootIndex(ev, 1)
        last == IF ev[r].k = "open" THEN MatchClose(ev, r) ELSE r
    IN <<"decl", "nl">> \o WriteNodes(ev, r, last, 0, indent)

\* minidom.parseString(s).toprettyxml(indent, encoding) of a well-formed
\* text.
ToPrettyXml(s, indent) ==
    CHOOSE out \in { WriteDocument(ev, indent) : ev \in {Events(s)} } : TRUE

\* ------------------------------------------------- pretty_print_xml

\* The indent argument: one unit of indentation (the --indent option).
IndentUnit == <<"sp">>

\* f"__CDATA_PLACEHOLDER_{i}__"
Placeholder(i) == "P" \o ToString(i)

\* cdata_pattern.finditer(s): the non-overlapping matches of
\* <![CDATA[(.*?)]]> from position i on, leftmost first, each ending at
\* the first "]]>" after its opening (DOTALL: across lines).
RECURSIVE FindCdata(_, _)
FindCdata(s, i) ==
    LET p == IndexFrom(s, "O", i)
        q == IF p = 0 THEN 0 ELSE IndexFrom(s, "C", p + 1)
    IN IF p = 0 \/ q = 0 THEN <<>>
       ELSE <<SubSeq(s, p, q)>> \o FindCdata(s, q + 1)

\* The extraction loop's effect on the working text: for match i (counted
\* from 0), str.replace puts its placeholder in place of every occurrence
\* of the match's text.
RECURSIVE ReplaceMatches(_, _, _)
ReplaceMatches(rough, matches, i) ==
    IF i >= Len(matches) THEN rough
    ELSE ReplaceMatches(StrReplace(rough, matches[i + 1], <<Placeholder(i)>>),
                        matches, i + 1)

\* The list the loop builds: (placeholder, original) for each match.
Sections(matches) ==
    [k \in 1..Len(matches) |->
        [placeholder |-> Placeholder(k - 1), original |-> matches[k]]]

\* Lines 41-49: the working text and the list of (placeholder, original).
ExtractCdata(rough_in) ==
    [rough |-> ReplaceMatches(rough_in, FindCdata(rough_in, 1), 0),
     sections |-> Sections(FindCdata(rough_in, 1))]

\* Lines 61-63: the lines that are not blank, joined again.
RemoveBlankLines(p) ==
    JoinLines(SelectSeq(SplitLines(p, 1, <<>>), LAMBDA line : Strip(line) # <<>>))

\* ParseAndPrint with the failure lost: the working text itself is
\* returned when the parser raises.
ParseAndPrintUnchecked(rough, indent) ==
    IF WellFormed(rough) THEN RemoveBlankLines(ToPrettyXml(rough, indent))
    ELSE rough

\* Lines 52-63 and 74-76: parse the working text and pretty-print it;
\* None when the parser raises.
ParseAndPrint(rough, indent) ==
    IF WellFormed(rough) THEN RemoveBlankLines(ToPrettyXml(rough, indent))
    ELSE None

\* Lines 66-67: each placeholder replaced by its original, in list order.
RECURSIVE RestoreCdata(_, _)
RestoreCdata(p, sections) ==
    IF sections = <<>> THEN p
    ELSE RestoreCdata(StrReplace(p, <<Head(sections).placeholder>>, Head(sections).original),
                      Tail(sections))

\* Line 70: a single newline at the end.
EndWithNewline(p) == RStrip(p) \o <<"nl">>

\* pretty_print_xml(element, indent=indent, preserve_cdata=True) for a
\* string argument.
pretty_print_xml(element, indent) ==
    LET ex == ExtractCdata(element)
        pretty == ParseAndPrint(ex.rough, indent)
    IN IF pretty = None THEN None
       ELSE EndWithNewline(RestoreCdata(pretty, ex.sections))

\* ------------------------------------- pretty_print_xml, step by step

\* What the exception of pretty_print_xml(None) leaves as its "result":
\* finditer raises TypeError before the try block.
Raised == <<"TypeError">>

\* The segments a generated text's body is made of: tags, characters,
\* placeholder-like text, CDATA delimiters and whole CDATA sections (one
\* holding placeholder-like text, one holding another section's opening).
Items ==
    { <<"<a>">>, <<"</a>">>, <<"x">>, <<"nl">>, <<"sp">>, <<"&#13;">>,
      <<"P0">>, <<"P1">>, <<"O">>, <<"C">>,
      <<"O", "x", "C">>, <<"O", "P1", "C">>, <<"O", "O", "x", "C">> }

Bodies == UNION { { Flatten(f) : f \in [1..n -> Items] } : n \in 0..MaxSeg }

\* The generated texts: a body alone, a body in a document element, and
\* the same laid out as a file with its declaration and final newline.
Texts ==
    Bodies
    \cup { <<"<a>">> \o b \o <<"</a>">> : b \in Bodies }
    \cup { <<"decl", "nl", "<a>">> \o b \o <<"</a>", "nl">> : b \in Bodies }

RunIdle ==
    /\ dry_run = FALSE /\ backup = FALSE /\ validate = FALSE
    /\ name = <<>> /\ readable = <<>> /\ initial = <<>>
    /\ disk = <<>> /\ bak = <<>>
    /\ idx = 0 /\ pc = "idle"
    /\ original_content = Unset /\ rough_string = Unset /\ cdata_sections = <<>>
    /\ pretty_xml = Unset /\ formatted_content = Unset
    /\ formatted_count = 0 /\ error_count = 0 /\ validation_errors = 0
    /\ outcome = <<>> /\ stages = <<>> /\ reported = <<>> /\ passed_on = <<>>

PPInit ==
    /\ pp_input \in Texts
    /\ pp_rough = Unset /\ pp_sections = <<>> /\ pp_pretty = Unset
    /\ pp_result = Unset /\ pp_again = Unset
    /\ pp_pc = "start"
    /\ RunIdle

\* Lines 40-49.
PPExtract ==
    /\ pp_pc = "start"
    /\ pp_rough' = ExtractCdata(pp_input).rough
    /\ pp_sections' = ExtractCdata(pp_input).sections
    /\ pp_pc' = "extracted"
    /\ UNCHANGED <<pp_input, pp_pretty, pp_result, pp_again, runvars>>

\* Lines 52-63.
PPFormat ==
    /\ pp_pc = "extracted"
    /\ ParseAndPrint(pp_rough, IndentUnit) # None
    /\ pp_pretty' = ParseAndPrint(pp_rough, IndentUnit)
    /\ pp_pc' = "formatted"
    /\ UNCHANGED <<pp_input, pp_rough, pp_sections, pp_result, pp_again, runvars>>

\* Lines 74-76.
PPFormatFails ==
    /\ pp_pc = "extracted"
    /\ ParseAndPrint(pp_rough, IndentUnit) = None
    /\ pp_result' = None
    /\ pp_pc' = "returned"
    /\ UNCHANGED <<pp_input, pp_rough, pp_sections, pp_pretty, pp_again, runvars>>

\* Lines 65-72.
PPRestore ==
    /\ pp_pc = "formatted"
    /\ pp_result' = EndWithNewline(RestoreCdata(pp_pretty, pp_sections))
    /\ pp_pc' = "returned"
    /\ UNCHANGED <<pp_input, pp_rough, pp_sections, pp_pretty, pp_again, runvars>>

\* pretty_print_xml applied to the text it returned.
PPAgain ==
    /\ pp_pc = "returned"
    /\ pp_again' = IF pp_result = None THEN Raised
                   ELSE pretty_print_xml(pp_result, IndentUnit)
    /\ pp_pc' = "again"
    /\ UNCHANGED <<pp_input, pp_rough, pp_sections, pp_pretty, pp_result, runvars>>

PPNext == PPExtract \/ PPFormat \/ PPFormatFails \/ PPRestore \/ PPAgain

SpecPP == PPInit /\ [][PPNext]_vars

\* ------------------------------------------------------ the files

\* No .bak file.
NoFile == <<"NoFile">>

\* The text open(path, "r").read() gives for a stored content: universal
\* newlines turn "\r\n" and "\r" into "\n".
RECURSIVE ReadText(_)
ReadText(content) ==
    IF content = <<>> THEN <<>>
    ELSE IF Head(content) = "cr"
         THEN (IF Len(content) > 1 /\ content[2] = "nl" THEN ReadText(Tail(content))
               ELSE <<"nl">> \o ReadText(Tail(content)))
    ELSE <<Head(content)>> \o ReadText(Tail(content))

\* A formatted document: what the formatter writes for <a><a/></a>.
Canonical == <<"decl", "nl", "<a>", "nl", "sp", "<a/>", "nl", "</a>", "nl">>

File(n, r, c) == [name |-> n, readable |-> r, content |-> c]

\* The files a run may be given.
FilePool ==
    { File("other.xml", TRUE, Canonical),
      File("other.xml", TRUE, SubSeq(Canonical, 1, Len(Canonical) - 1)),
      File("other.xml", TRUE, Canonical \o <<"nl">>),
      File("other.xml", TRUE, <<"<a>", "<a/>", "</a>">>),
      File("other.xml", TRUE, <<"<a>", "x">>),
      File("other.xml", TRUE, <<"nl">>),
      File("other.xml", FALSE, <<"<a>", "<a/>", "</a>">>),
      File("other.xml", TRUE, <<"<a>", "O", "x", "C", "O", "O", "x", "C", "</a>">>),
      File("addon.xml", TRUE, <<"<addon id name>", "x", "</addon>">>),
      File("addon.xml", TRUE, <<"<addon id name version provider-name>", "x", "</addon>", "nl">>),
      File("addon.xml", TRUE, <<"<a>", "<a/>", "</a>">>) }

FileIds == 1..NumFiles

\* ------------------------------------------- the texts a run works on

\* Lines 101-102 and 208: the pool's files as read.
FileTexts == { ReadText(f.content) : f \in FilePool }

\* Lines 44-49: their working texts, the CDATA sections replaced.
WorkingTexts == { ExtractCdata(t).rough : t \in FileTexts }

\* Lines 110 and 208: whether ET.fromstring / ET.parse accepts a file's
\* text.  The answers are the same whenever the text is the same, so they
\* are tabulated once for the texts of the pool.
Parses == [t \in FileTexts |-> WellFormed(t)]

\* Line 209: tree.getroot() of a text that parses.
Root == [t \in {u \in FileTexts : WellFormed(u)} |-> RootElement(t)]

\* Lines 41-49 on a file's text.
Extracted == [t \in FileTexts |-> ExtractCdata(t)]

\* Lines 52-63 (and 74-76) on a working text.
Printed == [t \in WorkingTexts |-> ParseAndPrint(t, IndentUnit)]

\* ------------------------------------------------ validate_xml_structure

required_attrs == <<"id", "name", "version", "provider-name">>

\* Lines 219: the required attributes the root element lacks, in the
\* list's order.
MissingAttrs(root) == SelectSeq(required_attrs, LAMBDA attr : attr \notin root.attrib)

NotValidated == [ran |-> FALSE, ok |-> FALSE, root_warning |-> FALSE, missing |-> <<>>]

\* validate_xml_structure made blocking: a missing required attribute or
\* a wrong root tag makes it return False.
validate_strict(i) ==
    IF ~readable[i] \/ ~Parses[ReadText(disk[i])]
    THEN [ran |-> TRUE, ok |-> FALSE, root_warning |-> FALSE, missing |-> <<>>]
    ELSE IF name[i] = "addon.xml"
    THEN LET root == Root[ReadText(disk[i])] IN
         [ran |-> TRUE, ok |-> root.tag = "addon" /\ MissingAttrs(root) = <<>>,
          root_warning |-> root.tag # "addon", missing |-> MissingAttrs(root)]
    ELSE [ran |-> TRUE, ok |-> TRUE, root_warning |-> FALSE, missing |-> <<>>]

\* validate_xml_structure(file i): its return value (ok) and the warnings
\* it logs.  Reading or parsing that raises gives False; the checks of an
\* addon.xml only warn.
validate_xml_structure(i) ==
    IF ~readable[i] \/ ~Parses[ReadText(disk[i])]
    THEN [ran |-> TRUE, ok |-> FALSE, root_warning |-> FALSE, missing |-> <<>>]
    ELSE IF name[i] = "addon.xml"
    THEN LET root == Root[ReadText(disk[i])] IN
         [ran |-> TRUE, ok |-> TRUE, root_warning |-> root.tag # "addon",
          missing |-> MissingAttrs(root)]
    ELSE [ran |-> TRUE, ok |-> TRUE, root_warning |-> FALSE, missing |-> <<>>]

\* --------------------------------------------------- format_directory

\* Line 261: a file whose validation failed is skipped unless dry_run.
SkipsInvalid == ~dry_run

\* "break" in place of "continue": the loop ends at the first skipped file.
BreakAfterSkip(i) == NumFiles + 1

\* Line 263: "continue" goes on with the next file.
ContinueAfterSkip(i) == i + 1

\* The backup made in a dry run too.
BackupRequestedInDryRun == backup

\* Line 266: whether create_backup is called.
BackupRequested == backup /\ ~dry_run

\* Lines 131, 137: whether format_xml_file writes the file.
WritesFile == ~dry_run

\* The change check without strip().
NeedsWriteExact(original, formatted) == formatted # original

\* Line 127: the change check, on the whole texts stripped.
NeedsWrite(original, formatted) == Strip(formatted) # Strip(original)

\* How much of the text a write that fails part-way leaves in the file
\* that open(path, "w") has truncated: nothing, or the first half.
PartialLengths(text) == {0, Len(text) \div 2}

Init ==
    /\ dry_run \in BOOLEAN /\ backup \in BOOLEAN /\ validate \in BOOLEAN
    /\ \E f \in [FileIds -> FilePool] :
          /\ name = [i \in FileIds |-> f[i].name]
          /\ readable = [i \in FileIds |-> f[i].readable]
          /\ initial = [i \in FileIds |-> f[i].content]
    /\ disk = initial
    /\ bak = [i \in FileIds |-> NoFile]
    /\ idx = 1 /\ pc = "loop"
    /\ original_content = Unset /\ rough_string = Unset /\ cdata_sections = <<>>
    /\ pretty_xml = Unset /\ formatted_content = Unset
    /\ formatted_count = 0 /\ error_count = 0 /\ validation_errors = 0
    /\ outcome = [i \in FileIds |-> "pending"]
    /\ stages = [i \in FileIds |-> <<>>]
    /\ reported = [i \in FileIds |-> NotValidated]
    /\ passed_on = [i \in FileIds |-> FALSE]
    /\ pp_input = Unset /\ pp_rough = Unset /\ pp_sections = <<>> /\ pp_pretty = Unset
    /\ pp_result = Unset /\ pp_again = Unset /\ pp_pc = "idle"

Enter(stage) == stages' = [stages EXCEPT ![idx] = Append(@, stage)]

\* Lines 272-275 and the loop's advance: format_xml_file returned result.
Returned(result, out) ==
    /\ outcome' = [outcome EXCEPT ![idx] = out]
    /\ formatted_count' = IF result THEN formatted_count + 1 ELSE formatted_count
    /\ error_count' = IF result THEN error_count ELSE error_count + 1
    /\ idx' = idx + 1
    /\ pc' = "loop"
    /\ UNCHANGED validation_errors

\* Lines 263, 269: "continue" without calling format_xml_file.
Skipped(out) ==
    /\ outcome' = [outcome EXCEPT ![idx] = out]
    /\ idx' = ContinueAfterSkip(idx)
    /\ pc' = "loop"
    /\ UNCHANGED <<formatted_count, error_count>>

\* Line 256: the loop takes the next file.
Discover ==
    /\ pc = "loop" /\ idx <= NumFiles
    /\ Enter("Discovered")
    /\ pc' = IF validate THEN "validate" ELSE "backup"
    /\ UNCHANGED <<ppvars, options, files, disk, bak, idx, locals, counters,
                   outcome, reported, passed_on>>

\* Lines 277-285: the loop is over, the summary is logged.
Summary ==
    /\ pc = "loop" /\ idx > NumFiles
    /\ pc' = "done"
    /\ UNCHANGED <<ppvars, options, files, disk, bak, idx, locals, counters, history>>

\* Lines 258-259, validation succeeds.
ValidateOk ==
    /\ pc = "validate"
    /\ validate_xml_structure(idx).ok
    /\ reported' = [reported EXCEPT ![idx] = validate_xml_structure(idx)]
    /\ Enter("Validated")
    /\ pc' = "backup"
    /\ UNCHANGED <<ppvars, options, files, disk, bak, idx, locals, counters,
                   outcome, passed_on>>

\* Lines 259-263, validation fails and the file is skipped.
ValidateFailsSkip ==
    /\ pc = "validate"
    /\ ~validate_xml_structure(idx).ok
    /\ SkipsInvalid
    /\ reported' = [reported EXCEPT ![idx] = validate_xml_structure(idx)]
    /\ Enter("Validated")
    /\ validation_errors' = validation_errors + 1
    /\ Skipped("skipped_validation")
    /\ UNCHANGED <<ppvars, options, files, disk, bak, locals, passed_on>>

\* Lines 259-261, validation fails in a dry run: the file goes on.
ValidateFailsGoesOn ==
    /\ pc = "validate"
    /\ ~validate_xml_structure(idx).ok
    /\ ~SkipsInvalid
    /\ reported' = [reported EXCEPT ![idx] = validate_xml_structure(idx)]
    /\ Enter("Validated")
    /\ validation_errors' = validation_errors + 1
    /\ pc' = "backup"
    /\ UNCHANGED <<ppvars, options, files, disk, bak, idx, locals,
                   formatted_count, error_count, outcome, passed_on>>

\* Line 266, no backup is made.
NoBackup ==
    /\ pc = "backup"
    /\ ~BackupRequested
    /\ pc' = "format"
    /\ UNCHANGED <<ppvars, options, files, disk, bak, idx, locals, counters, history>>

\* Lines 181-187, create_backup writes the .bak file.
BackupOk ==
    /\ pc = "backup"
    /\ BackupRequested
    /\ readable[idx]
    /\ bak' = [bak EXCEPT ![idx] = disk[idx]]
    /\ pc' = "format"
    /\ UNCHANGED <<ppvars, options, files, disk, idx, locals, counters, history>>

\* Lines 188-190 and 267-269, create_backup fails (the file cannot be
\* read, or the .bak file cannot be written) and the file is skipped.
BackupFails ==
    /\ pc = "backup"
    /\ BackupRequested
    /\ Skipped("skipped_backup")
    /\ UNCHANGED <<ppvars, options, files, disk, bak, locals, validation_errors,
                   stages, reported, passed_on>>

\* ---------------------------------------------------- format_xml_file

\* Lines 101-102 raise (the file cannot be read); lines 144-146.
ReadFails ==
    /\ pc = "format"
    /\ ~readable[idx]
    /\ passed_on' = [passed_on EXCEPT ![idx] = TRUE]
    /\ Returned(FALSE, "error")
    /\ UNCHANGED <<ppvars, options, files, disk, bak, locals, stages, reported>>

\* Lines 105-107.
SkipEmpty ==
    /\ pc = "format"
    /\ readable[idx]
    /\ Strip(ReadText(disk[idx])) = <<>>
    /\ original_content' = ReadText(disk[idx])
    /\ passed_on' = [passed_on EXCEPT ![idx] = TRUE]
    /\ Returned(FALSE, "empty")
    /\ UNCHANGED <<ppvars, options, files, disk, bak, rough_string, cdata_sections,
                   pretty_xml, formatted_content, stages, reported>>

\* Lines 110-115.
InvalidXml ==
    /\ pc = "format"
    /\ readable[idx]
    /\ Strip(ReadText(disk[idx])) # <<>>
    /\ ~Parses[ReadText(disk[idx])]
    /\ original_content' = ReadText(disk[idx])
    /\ passed_on' = [passed_on EXCEPT ![idx] = TRUE]
    /\ Enter("ParseFailed")
    /\ Returned(FALSE, "invalid")
    /\ UNCHANGED <<ppvars, options, files, disk, bak, rough_string, cdata_sections,
                   pretty_xml, formatted_content, reported>>

\* Lines 101-118 and 40-49: the file is read, is not empty and parses;
\* pretty_print_xml is called and extracts the CDATA sections.
Extract ==
    /\ pc = "format"
    /\ readable[idx]
    /\ Strip(ReadText(disk[idx])) # <<>>
    /\ Parses[ReadText(disk[idx])]
    /\ original_content' = ReadText(disk[idx])
    /\ rough_string' = Extracted[ReadText(disk[idx])].rough
    /\ cdata_sections' = Extracted[ReadText(disk[idx])].sections
    /\ pretty_xml' = Unset
    /\ formatted_content' = Unset
    /\ passed_on' = [passed_on EXCEPT ![idx] = TRUE]
    /\ Enter("Extracted")
    /\ pc' = "extracted"
    /\ UNCHANGED <<ppvars, options, files, disk, bak, idx, counters, outcome, reported>>

\* Lines 52-63.
ParsePrint ==
    /\ pc = "extracted"
    /\ Printed[rough_string] # None
    /\ pretty_xml' = Printed[rough_string]
    /\ Enter("Formatted")
    /\ pc' = "formatted"
    /\ UNCHANGED <<ppvars, options, files, disk, bak, idx, original_content,
                   rough_string, cdata_sections, formatted_content, counters,
                   outcome, reported, passed_on>>

\* Lines 74-76 and 122-124: the parser raises, pretty_print_xml returns
\* None, format_xml_file returns False.
ParseFails ==
    /\ pc = "extracted"
    /\ Printed[rough_string] = None
    /\ formatted_content' = None
    /\ Enter("ParseFailed")
    /\ Returned(FALSE, "unformattable")
    /\ UNCHANGED <<ppvars, options, files, disk, bak, original_content,
                   rough_string, cdata_sections, pretty_xml, reported, passed_on>>

\* Lines 65-72.
Restore ==
    /\ pc = "formatted"
    /\ formatted_content' = EndWithNewline(RestoreCdata(pretty_xml, cdata_sections))
    /\ Enter("Restored")
    /\ pc' = "restored"
    /\ UNCHANGED <<ppvars, options, files, disk, bak, idx, original_content,
                   rough_string, cdata_sections, pretty_xml, counters,
                   outcome, reported, passed_on>>

\* Lines 127-129.
Unchanged ==
    /\ pc = "restored"
    /\ ~NeedsWrite(original_content, formatted_content)
    /\ Enter("Unchanged")
    /\ Returned(FALSE, "unchanged")
    /\ UNCHANGED <<ppvars, options, files, disk, bak, locals, reported, passed_on>>

\* Line 127, the texts differ.
Candidate ==
    /\ pc = "restored"
    /\ NeedsWrite(original_content, formatted_content)
    /\ Enter("WriteCandidate")
    /\ pc' = "candidate"
    /\ UNCHANGED <<ppvars, options, files, disk, bak, idx, locals, counters,
                   outcome, reported, passed_on>>

\* Lines 131-136.
WouldFormat ==
    /\ pc = "candidate"
    /\ ~WritesFile
    /\ Returned(TRUE, "would_format")
    /\ UNCHANGED <<ppvars, options, files, disk, bak, locals, stages, reported, passed_on>>

\* Lines 138-142.
WriteOk ==
    /\ pc = "candidate"
    /\ WritesFile
    /\ disk' = [disk EXCEPT ![idx] = formatted_content]
    /\ Enter("Written")
    /\ Returned(TRUE, "formatted")
    /\ UNCHANGED <<ppvars, options, files, bak, locals, reported, passed_on>>

\* Line 139 raises (the file cannot be opened for writing); lines 144-146.
WriteOpenFails ==
    /\ pc = "candidate"
    /\ WritesFile
    /\ Enter("WriteFailed")
    /\ Returned(FALSE, "error")
    /\ UNCHANGED <<ppvars, options, files, disk, bak, locals, reported, passed_on>>

\* Line 139 has truncated the file and line 140 (or the close) raises, the
\* disk being full: part of the text is in the file; lines 144-146.
WritePartial ==
    /\ pc = "candidate"
    /\ WritesFile
    /\ \E k \in PartialLengths(formatted_content) :
          disk' = [disk EXCEPT ![idx] = SubSeq(formatted_content, 1, k)]
    /\ Enter("WriteFailed")
    /\ Returned(FALSE, "error")
    /\ UNCHANGED <<ppvars, options, files, bak, locals, reported, passed_on>>

Next ==
    \/ Discover \/ Summary
    \/ ValidateOk \/ ValidateFailsSkip \/ ValidateFailsGoesOn
    \/ NoBackup \/ BackupOk \/ BackupFails
    \/ ReadFails \/ SkipEmpty \/ InvalidXml \/ Extract
    \/ ParsePrint \/ ParseFails \/ Restore
    \/ Unchanged \/ Candidate
    \/ WouldFormat \/ WriteOk \/ WriteOpenFails \/ WritePartial

Spec == Init /\ [][Next]_vars

\* The program runs to its end: the loop is sequential code that takes a
\* step whenever one is possible.
FairSpec == Spec /\ WF_vars(Next)

\* ------------------------------------------------------------ claims

\* The pipeline of file i has ended.
Done(i) == outcome[i] # "pending"

\* The text of file i as it was read at the start of the run, and what
\* pretty_print_xml makes of it.
InitialText(i) == ReadText(initial[i])
CanonicalOf(i) == pretty_print_xml(InitialText(i), IndentUnit)

\* C1: literal-section round trip.  For every well-formed text, the text
\* pretty_print_xml returns holds exactly the CDATA sections of the input,
\* each unchanged and in the same order.
C1_RoundTrip ==
    (pp_pc \in {"returned", "again"} /\ WellFormed(pp_input))
        => /\ pp_result # None
           /\ FindCdata(pp_result, 1) = FindCdata(pp_input, 1)

\* C2: parse-failure safety.  A file whose content is not well-formed is
\* never written: when its pipeline has ended its stored content is the
\* content it had, it never was a write candidate, and format_xml_file, if
\* called, returned False; and whenever the parse inside pretty_print_xml
\* fails, pretty_print_xml returns None and nothing later in it runs.
C2_ParseFailureSafety ==
    /\ \A i \in FileIds :
          (Done(i) /\ readable[i] /\ ~WellFormed(InitialText(i)))
              => /\ disk[i] = initial[i]
                 /\ outcome[i] \in {"skipped_validation", "skipped_backup", "empty", "invalid"}
                 /\ \A k \in 1..Len(stages[i]) :
                        stages[i][k] \notin {"WriteCandidate", "Written", "WriteFailed"}
    /\ pc \in {"formatted", "restored", "candidate"} => WellFormed(rough_string)
    /\ \A i \in FileIds :
          (outcome[i] = "unformattable" /\ pc = "loop" /\ idx = i + 1)
              => /\ formatted_content = None
                 /\ ~WellFormed(rough_string)
                 /\ disk[i] = initial[i]

\* C2's case: one file was refused as invalid XML and left as it was, and
\* for another the parse inside pretty_print_xml failed.
C2_Witness ==
    \E i, j \in FileIds :
        /\ outcome[i] = "invalid" /\ disk[i] = initial[i]
        /\ outcome[j] = "unformattable" /\ formatted_content = None

\* C3: no partial write.  Once the pipeline of a file has ended, its
\* stored content is its original content or the complete formatted text.
C3_NoPartialWrite ==
    \A i \in FileIds :
        Done(i) => (disk[i] = initial[i] \/ disk[i] = CanonicalOf(i))

\* C4: idempotence.  For every well-formed text that pretty_print_xml
\* formats, pretty_print_xml applied to the text it returned returns that
\* text again.
C4_Idempotent ==
    (pp_pc = "again" /\ WellFormed(pp_input) /\ pp_result # None)
        => pp_again = pp_result

\* C5: failure isolation.  Every file of the list eventually reaches a
\* terminal outcome, whatever happened to the files before it.
C5_FailureIsolation == \A i \in FileIds : <>Done(i)

\* C5's case: a file failed (validation, backup, parse or I/O) and a later
\* file was still taken to its outcome.
C5_Witness ==
    \E i, j \in FileIds :
        /\ i < j
        /\ outcome[i] \in {"skipped_validation", "skipped_backup", "invalid",
                           "unformattable", "error"}
        /\ Done(j)

\* What format_xml_file rewrites in a run that is not a dry run: a file it
\* can read, that is not empty, parses, formats, and whose formatted text
\* differs from it after stripping.
WouldRewrite(i) ==
    /\ readable[i]
    /\ Strip(InitialText(i)) # <<>>
    /\ WellFormed(InitialText(i))
    /\ CanonicalOf(i) # None
    /\ Strip(CanonicalOf(i)) # Strip(InitialText(i))

\* C6: a dry run changes nothing.  With dry_run set, no file's content
\* changes and no .bak file is created, whatever backup and validate are,
\* and format_xml_file returns True exactly for the files it would rewrite.
C6_DryRunChangesNothing ==
    dry_run =>
        /\ \A i \in FileIds : disk[i] = initial[i] /\ bak[i] = NoFile
        /\ \A i \in FileIds : Done(i) => (outcome[i] = "would_format" <=> WouldRewrite(i))
        /\ pc = "done" =>
              formatted_count = Cardinality({i \in FileIds : WouldRewrite(i)})

\* C6's case: a dry run with backup and validate set has ended, and a file
\* that needed formatting was reported.
C6_Witness ==
    /\ dry_run /\ backup /\ validate /\ pc = "done"
    /\ \E i \in FileIds : outcome[i] = "would_format" /\ initial[i] # CanonicalOf(i)

\* C7: validation is non-blocking.  For a well-formed addon.xml,
\* validate_xml_structure reports exactly the required attributes its
\* root lacks (and the wrong root tag), returns True and leaves the file as
\* it is, and the file goes on to backup and formatting like any other.
C7_ValidationNonBlocking ==
    \A i \in FileIds :
        (reported[i].ran /\ name[i] = "addon.xml" /\ readable[i]
            /\ WellFormed(InitialText(i)))
        => LET root == RootElement(InitialText(i))
               said == {reported[i].missing[k] : k \in 1..Len(reported[i].missing)}
           IN /\ reported[i].ok
              /\ said = {a \in {"id", "name", "version", "provider-name"} : a \notin root.attrib}
              /\ Len(reported[i].missing) = Cardinality(said)
              /\ reported[i].root_warning = (root.tag # "addon")
              /\ outcome[i] # "skipped_validation"
              /\ (idx = i /\ pc = "backup") => disk[i] = initial[i]
              /\ (Done(i) /\ outcome[i] # "skipped_backup") =>
                    /\ passed_on[i]
                    /\ outcome[i] \in {"unchanged", "would_format", "formatted", "error"}

\* C7's case: an addon.xml lacking version and provider-name was reported
\* as lacking exactly those and was then formatted and written.
C7_Witness ==
    \E i \in FileIds :
        /\ name[i] = "addon.xml"
        /\ reported[i].missing = <<"version", "provider-name">>
        /\ outcome[i] = "formatted"
        /\ disk[i] = CanonicalOf(i)

\* C8: change detection.  format_xml_file decides "no change" exactly when
\* the original and the formatted text are equal after stripping each
\* whole text: a file that lacks the final newline of its formatted text,
\* or has an extra one, is not rewritten; any other difference makes it a
\* write candidate.
C8_ChangeDetection ==
    /\ pc = "candidate" => Strip(formatted_content) # Strip(original_content)
    /\ \A i \in FileIds :
          (outcome[i] = "unchanged" /\ pc = "loop" /\ idx = i + 1)
              => Strip(formatted_content) = Strip(original_content)
    /\ \A i \in FileIds :
          (Done(i) /\ passed_on[i] /\ readable[i] /\ WellFormed(InitialText(i))
              /\ CanonicalOf(i) # None)
          => /\ outcome[i] = "unchanged" <=> Strip(InitialText(i)) = Strip(CanonicalOf(i))
             /\ outcome[i] = "unchanged" => disk[i] = initial[i]
             /\ outcome[i] # "unchanged" => "WriteCandidate" \in {stages[i][k] : k \in 1..Len(stages[i])}

\* C8's case: a file that is its formatted text without the final newline
\* was found unchanged.
C8_Witness ==
    \E i \in FileIds :
        /\ outcome[i] = "unchanged"
        /\ initial[i] # CanonicalOf(i)
        /\ initial[i] \o <<"nl">> = CanonicalOf(i)

\* The stages that may follow a stage in the pipeline order
\* Discovered, Validated, then ParseFailed or Extracted, Formatted,
\* Restored, then Unchanged or WriteCandidate, then Written or WriteFailed.
After(stage) ==
    CASE stage = "Discovered" ->
            {"Validated", "ParseFailed", "Extracted", "Formatted", "Restored",
             "Unchanged", "WriteCandidate", "Written", "WriteFailed"}
      [] stage = "Validated" ->
            {"ParseFailed", "Extracted", "Formatted", "Restored",
             "Unchanged", "WriteCandidate", "Written", "WriteFailed"}
      [] stage = "Extracted" ->
            {"Formatted", "Restored", "Unchanged", "WriteCandidate", "Written", "WriteFailed"}
      [] stage = "Formatted" ->
            {"Restored", "Unchanged", "WriteCandidate", "Written", "WriteFailed"}
      [] stage = "Restored" -> {"Unchanged", "WriteCandidate", "Written", "WriteFailed"}
      [] stage = "WriteCandidate" -> {"Written", "WriteFailed"}
      [] OTHER -> {}

\* C9: per-file pipeline order.  The stages a file enters follow the
\* order above: each stage entered is one that may follow the stage before
\* it, so no stage is entered twice, a terminal stage has no successor,
\* ParseFailed is entered only before extraction, and the change decision
\* follows the restoration.
C9_StageOrder ==
    \A i \in FileIds :
        \A k \in 1..(Len(stages[i]) - 1) : stages[i][k + 1] \in After(stages[i][k])

\* C10: the summary counters match the outcomes.  When format_directory
\* has processed the list, error_count is the number of files that
\* format_xml_file failed on (parse failure or I/O failure) and
\* formatted_count the number it rewrote (in a dry run: would rewrite); an
\* unchanged or empty file counts in neither.
C10_CountersMatchOutcomes ==
    pc = "done" =>
        /\ error_count =
              Cardinality({i \in FileIds : outcome[i] \in {"invalid", "unformattable", "error"}})
        /\ formatted_count =
              Cardinality({i \in FileIds : outcome[i] \in {"formatted", "would_format"}})

====
